---------------------------- MODULE Spec2Model ----------------------------
(***************************************************************************)
(* Model of logjuicer's streaming anomaly detector                         *)
(* (crates/model/src/process.rs): the ChunkProcessor iterator, its search  *)
(* phase, reset and collect_before.                                        *)
(*                                                                         *)
(* Representation.  A raw line is represented by its line number in the    *)
(* target stream (the line_number BytesLines gives it); its text is        *)
(* stream[ln].  The context vectors (before, after, left_overs) and        *)
(* anomaly.line therefore hold line numbers.  Distances are in tenths      *)
(* (THRESHOLD 0.3 is 3).  CHUNK_SIZE and the factor 10 of the heavy        *)
(* duplication test are scaled down so that chunks fill within MaxLen      *)
(* lines.                                                                  *)
(***************************************************************************)
EXTENDS Integers, Sequences, FiniteSets, TLC

\* process.rs:16  const THRESHOLD = 0.3, in tenths
THRESHOLD == 3
\* process.rs:17
CTX_DISTANCE == 3
\* process.rs:18  const CHUNK_SIZE = 512, scaled down
CHUNK_SIZE == 2
\* process.rs:174  the 10 of CHUNK_SIZE * 10, scaled down
DUP_FACTOR == 2
\* longest target stream explored
MaxLen == 6
\* the tokenized lines the target may contain
Tokens == {1, 2, 3, 4}

Max(a, b) == IF a >= b THEN a ELSE b
Min(a, b) == IF a <= b THEN a ELSE b

\* The lines a target stream is made of.  kind "ok" is a decodable line with
\* tokens tok; "bad" is a line that is not valid UTF-8; "marker" is a
\* decodable line containing "TASK [run-logjuicer".
Lines ==
    [kind : {"ok"}, tok : Tokens]
        \cup {[kind |-> "bad", tok |-> 1], [kind |-> "marker", tok |-> 1]}

\* std::str::from_utf8(&line.0[..]) succeeds
from_utf8_ok(line) == line.kind # "bad"

\* raw_str.contains("TASK [run-logjuicer")
contains_marker(line) == line.kind = "marker"

\* logjuicer_tokenizer::process(raw_str)
tokenize(line) == line.tok

\* line.0.len()
bytes_len(line) == IF line.kind = "ok" THEN line.tok ELSE 1

\* IndexReader::distance for one tokenized line, in tenths: token 1 matches the
\* baseline, token 2 sits exactly on the threshold, tokens 3 and 4 are far.
Distance(tok) ==
    CASE tok = 1 -> 0
      [] tok = 2 -> THRESHOLD
      [] tok = 3 -> THRESHOLD + 1
      [] OTHER -> 10

\* index.distance(&self.targets)
distances(targets) == [i \in 1..Len(targets) |-> Distance(targets[i])]

\* let is_anomaly = distance > &THRESHOLD
is_anomaly_ge(distance) == distance >= THRESHOLD
is_anomaly(distance) == distance > THRESHOLD

\* Option<T>: None is <<>>, Some(x) is <<x>>
None == <<>>
Some(x) == <<x>>
is_some(o) == o # <<>>
unwrap(o) == o[1]

\* self.buffer[a..b] with 0-based, half-open Rust bounds
Slice(s, a, b) == SubSeq(s, a + 1, b)
SliceFrom(s, a) == SubSeq(s, a + 1, Len(s))

\* .map(|((bytes, _), _)| clone_bytes_to_string(bytes).unwrap()): the raw
\* lines of buffer entries
raw_lines(entries) ==
    IF entries = <<>>
    THEN <<>>
    ELSE [i \in 1..Len(entries) |-> entries[i].ln]

\* Vec::rotate_right(k)
rotate_right(s, k) ==
    SubSeq(s, Len(s) - k + 1, Len(s)) \o SubSeq(s, 1, Len(s) - k)

\* collect_before: let min_pos = ...
min_pos(buffer_pos) ==
    IF buffer_pos < CTX_DISTANCE THEN 0 ELSE buffer_pos - CTX_DISTANCE

\* collect_before: let before_context_pos = last_context_pos.max(min_pos)
before_context_pos_nomax(buffer_pos, last_context_pos) == min_pos(buffer_pos)
before_context_pos(buffer_pos, last_context_pos) ==
    Max(last_context_pos, min_pos(buffer_pos))

\* collect_before: the top-up of before from the tail of left_overs
top_up_norotate(before, left_overs) ==
    LET need == CTX_DISTANCE - Len(before)
        available == Len(left_overs)
        want == Min(need, available)
        before_extra == SliceFrom(left_overs, available - want)
    IN  before \o before_extra
top_up(before, left_overs) ==
    LET need == CTX_DISTANCE - Len(before)
        available == Len(left_overs)
        want == Min(need, available)
        before_extra == SliceFrom(left_overs, available - want)
    IN  rotate_right(before \o before_extra, want)

\* collect_before, lines 329-339: the window is topped up when it starts at
\* the beginning of the buffer and is short
collect_from(start, before, left_overs) ==
    IF start = 0 /\ Len(before) < CTX_DISTANCE
    THEN top_up(before, left_overs)
    ELSE before

\* fn collect_before(buffer_pos, last_context_pos, buffer, left_overs)
collect_before(buffer_pos, last_context_pos, buffer, left_overs) ==
    collect_from(before_context_pos(buffer_pos, last_context_pos),
                 raw_lines(Slice(buffer,
                                 before_context_pos(buffer_pos, last_context_pos),
                                 buffer_pos)),
                 left_overs)

\* reset: let max_left_overs_pos = left_overs_pos.max(min_left_overs_pos)
max_left_overs_pos_min(len, left_overs_pos) ==
    IF len < CTX_DISTANCE THEN 0 ELSE len - CTX_DISTANCE
max_left_overs_pos(len, left_overs_pos) ==
    LET min_left_overs_pos ==
            IF len < CTX_DISTANCE THEN 0 ELSE len - CTX_DISTANCE
    IN  Max(left_overs_pos, min_left_overs_pos)

\* fn reset(&mut self, left_overs_pos)
reset_keep_targets(cp, left_overs_pos) ==
    [cp EXCEPT
        !.left_overs =
            raw_lines(SliceFrom(cp.buffer,
                                max_left_overs_pos(Len(cp.buffer), left_overs_pos))),
        !.buffer = <<>>]
reset_keep_coords(cp, left_overs_pos) ==
    [cp EXCEPT
        !.targets = <<>>,
        !.left_overs =
            raw_lines(SliceFrom(cp.buffer,
                                max_left_overs_pos(Len(cp.buffer), left_overs_pos))),
        !.buffer = <<>>]
reset(cp, left_overs_pos) ==
    [cp EXCEPT
        !.targets = <<>>,
        !.targets_coord = <<>>,
        !.left_overs =
            raw_lines(SliceFrom(cp.buffer,
                                max_left_overs_pos(Len(cp.buffer), left_overs_pos))),
        !.buffer = <<>>]

\* anomaly.after.push(raw_str)
push_after(anomaly, raw_str) == [anomaly EXCEPT !.after = Append(@, raw_str)]

\* if anomaly.after.len() >= CTX_DISTANCE
after_full_gt(after) == Len(after) > CTX_DISTANCE
after_full(after) == Len(after) >= CTX_DISTANCE

\* do_search_anomalies, lines 217-229: the open anomaly got one more line of
\* after context; it is queued when complete, and last_context_pos moves on
after_pushed(st, anomaly) ==
    IF after_full(anomaly.after)
    THEN [st EXCEPT !.buffer_pos = @ + 1,
                    !.anomalies = Append(@, anomaly),
                    !.current_anomaly = None,
                    !.last_context_pos = st.buffer_pos + 1]
    ELSE [st EXCEPT !.buffer_pos = @ + 1,
                    !.current_anomaly = Some(anomaly),
                    !.last_context_pos = st.buffer_pos + 1]

\* do_search_anomalies, lines 210-229: one buffer entry of the walk.  st holds
\* the locals of the search phase and the two fields it updates
\* (current_anomaly, anomalies).
walk_entry(st, entry, coord, anomalous) ==
    IF entry.coord = coord /\ anomalous
    THEN [st EXCEPT !.buffer_pos = @ + 1, !.target_str = Some(entry.ln)]
    ELSE IF is_some(st.current_anomaly)
    THEN after_pushed(st, push_after(unwrap(st.current_anomaly), entry.ln))
    ELSE [st EXCEPT !.buffer_pos = @ + 1]

\* do_search_anomalies, lines 208-233: the walk over self.buffer[buffer_pos..]
\* for one target; walk_next is the break of lines 230-232, st1 being the
\* state after the entry at st1.buffer_pos
RECURSIVE walk_buffer(_, _, _, _)
RECURSIVE walk_next(_, _, _, _)
walk_next(buffer, st1, coord, anomalous) ==
    IF buffer[st1.buffer_pos].coord = coord
    THEN st1
    ELSE walk_buffer(buffer, st1, coord, anomalous)
walk_buffer(buffer, st, coord, anomalous) ==
    IF st.buffer_pos >= Len(buffer)
    THEN st
    ELSE walk_next(buffer,
                   walk_entry(st, buffer[st.buffer_pos + 1], coord, anomalous),
                   coord, anomalous)

\* do_search_anomalies, lines 236-240: the open anomaly is queued when a new
\* one is found
flush_open(st) ==
    IF is_some(st.current_anomaly)
    THEN [st EXCEPT !.anomalies = Append(@, unwrap(st.current_anomaly)),
                    !.current_anomaly = None]
    ELSE st

\* do_search_anomalies, lines 242-260: the new anomaly is opened with its
\* before context
open_anomaly(cp, st, distance) ==
    [st EXCEPT
        !.last_context_pos = st.buffer_pos,
        !.current_anomaly =
            Some([before |-> collect_before(st.buffer_pos - 1, st.last_context_pos,
                                            cp.buffer, cp.left_overs),
                  after |-> <<>>,
                  anomaly |-> [distance |-> distance,
                               pos |-> unwrap(st.target_str),
                               line |-> unwrap(st.target_str)]])]

\* do_search_anomalies, lines 235-266: what follows the walk for one target
after_walk(cp, st, distance) ==
    IF is_some(st.target_str)
    THEN open_anomaly(cp, flush_open(st), distance)
    ELSE IF is_anomaly(distance)
    THEN [st EXCEPT !.panicked = TRUE]
    ELSE st

\* do_search_anomalies, lines 202-267: the body of the loop over
\* distances.zip(targets_coord)
search_target(cp, st, distance, coord) ==
    after_walk(cp,
               walk_buffer(cp.buffer, [st EXCEPT !.target_str = None], coord,
                           is_anomaly(distance)),
               distance)

\* the for loop over the targets, from target i on
RECURSIVE search_targets(_, _, _, _)
search_targets(cp, st, dists, i) ==
    IF i > Len(dists) \/ st.panicked
    THEN st
    ELSE search_targets(cp, search_target(cp, st, dists[i], cp.targets_coord[i]),
                        dists, i + 1)

\* do_search_anomalies, lines 272-281: the loop of the tail sweep, from
\* 0-based index i on
RECURSIVE tail_loop(_, _, _)
tail_pushed_keep(buffer, st, i, anomaly) ==
    IF after_full(anomaly.after)
    THEN [st EXCEPT !.anomalies = Append(@, anomaly),
                    !.current_anomaly = Some(anomaly)]
    ELSE tail_loop(buffer, [st EXCEPT !.current_anomaly = Some(anomaly)], i + 1)
tail_pushed(buffer, st, i, anomaly) ==
    IF after_full(anomaly.after)
    THEN [st EXCEPT !.anomalies = Append(@, anomaly),
                    !.current_anomaly = None]
    ELSE tail_loop(buffer, [st EXCEPT !.current_anomaly = Some(anomaly)], i + 1)
tail_loop(buffer, st, i) ==
    IF i >= Len(buffer)
    THEN st
    ELSE tail_pushed(buffer, st, i,
                     push_after(unwrap(st.current_anomaly), buffer[i + 1].ln))

\* do_search_anomalies, lines 269-283: the tail sweep
tail_sweep(buffer, st) ==
    IF is_some(st.current_anomaly) /\ st.last_context_pos < Len(buffer)
    THEN tail_loop(buffer, st, st.last_context_pos)
    ELSE st

\* do_search_anomalies, line 284: the fields are stored, then
\* self.reset(last_context_pos)
store_and_reset(cp, st) ==
    reset([cp EXCEPT !.current_anomaly = st.current_anomaly,
                     !.anomalies = st.anomalies],
          st.last_context_pos)

\* do_search_anomalies, lines 269-284, st being the state after the loop over
\* the targets
after_targets(cp, st) ==
    IF st.panicked
    THEN [cp EXCEPT !.panicked = TRUE]
    ELSE store_and_reset(cp, tail_sweep(cp.buffer, st))

\* fn do_search_anomalies(&mut self)
do_search_anomalies(cp) ==
    after_targets(cp,
        search_targets(cp,
                       [buffer_pos |-> 0,
                        last_context_pos |-> 0,
                        current_anomaly |-> cp.current_anomaly,
                        anomalies |-> cp.anomalies,
                        target_str |-> None,
                        panicked |-> FALSE],
                       distances(cp.targets), 1))

\* read_anomalies, lines 184-186
search_last_chunk(cp) ==
    IF cp.targets # <<>> THEN do_search_anomalies(cp) ELSE cp

\* read_anomalies, lines 187-191
push_current(cp) ==
    IF is_some(cp.current_anomaly) /\ ~cp.panicked
    THEN [cp EXCEPT !.anomalies = Append(@, unwrap(cp.current_anomaly)),
                    !.current_anomaly = None]
    ELSE cp

\* read_anomalies, lines 183-192: what follows the while loop
end_of_stream_noflush(cp) == search_last_chunk(cp)
end_of_stream(cp) == push_current(search_last_chunk(cp))

\* read_anomalies, line 174: self.buffer.len() > CHUNK_SIZE * 10
buffer_too_long_chunk(len) == len > CHUNK_SIZE
buffer_too_long_never(len) == FALSE
buffer_too_long(len) == len > CHUNK_SIZE * DUP_FACTOR

\* The result of one step of read_anomalies: ret is "continue" (loop again),
\* "Ok" (return Ok(())), "Err" (return the decode error) or "panic".
continue_loop(cp) == [cp |-> cp, ret |-> "continue"]
return_ok(cp) == [cp |-> cp, ret |-> IF cp.panicked THEN "panic" ELSE "Ok"]

\* read_anomalies, lines 170-172 and 177-179: return if anomalies are queued
check_queue(cp) ==
    IF cp.panicked \/ cp.anomalies # <<>> THEN return_ok(cp) ELSE continue_loop(cp)

\* read_anomalies, lines 169-172 and 176-179
search_and_check(cp) == check_queue(do_search_anomalies(cp))

\* self.reader.next(): BytesLines numbers the line
advance_reader(cp) == [cp EXCEPT !.reader = @ + 1]

\* read_anomalies, lines 149-151
count_line(cp, line) ==
    [cp EXCEPT !.line_count = @ + 1,
               !.byte_count = @ + bytes_len(line),
               !.coord = @ + 1]

\* read_anomalies, line 162: self.buffer.push((line, self.coord))
push_buffer(cp) ==
    [cp EXCEPT !.buffer = Append(@, [ln |-> cp.reader, coord |-> cp.coord])]

\* read_anomalies, lines 165-166, after skip_lines.insert returned true
push_target(cp, tokens) ==
    [cp EXCEPT !.skip_lines = @ \cup {tokens},
               !.targets = Append(@, tokens),
               !.targets_coord = Append(@, cp.coord)]

\* read_anomalies, lines 168-173
chunk_full(cp) ==
    IF Len(cp.targets) = CHUNK_SIZE THEN search_and_check(cp) ELSE continue_loop(cp)

\* read_anomalies, lines 164-180: skip_lines.insert(&tokens) and its branches
insert_tokens(cp, tokens) ==
    IF tokens \notin cp.skip_lines
    THEN chunk_full(push_target(cp, tokens))
    ELSE IF buffer_too_long(Len(cp.buffer))
    THEN search_and_check(cp)
    ELSE continue_loop(cp)

\* read_anomalies, lines 153-180: the line is decoded and counted
read_decoded(cp, line) ==
    IF cp.is_job_output /\ contains_marker(line)
    THEN return_ok(end_of_stream(cp))
    ELSE insert_tokens(push_buffer(cp), tokenize(line))

\* read_anomalies, lines 145-181: one iteration of the while loop, for the
\* line the reader yields
read_line_counted(cp, line) ==
    IF ~from_utf8_ok(line)
    THEN [cp |-> count_line(advance_reader(cp), line), ret |-> "Err"]
    ELSE read_decoded(count_line(advance_reader(cp), line), line)
read_line(cp, line) ==
    IF ~from_utf8_ok(line)
    THEN [cp |-> advance_reader(cp), ret |-> "Err"]
    ELSE read_decoded(count_line(advance_reader(cp), line), line)

\* read_anomalies when self.reader.next() is None
read_eof(cp) == return_ok(end_of_stream(cp))

\* ChunkProcessor::new
new(is_job_output, skip_lines) ==
    [reader |-> 0,
     buffer |-> <<>>,
     targets |-> <<>>,
     targets_coord |-> <<>>,
     left_overs |-> <<>>,
     current_anomaly |-> None,
     anomalies |-> <<>>,
     skip_lines |-> skip_lines,
     coord |-> 0,
     line_count |-> 0,
     byte_count |-> 0,
     is_job_output |-> is_job_output,
     panicked |-> FALSE]

\* self.anomalies.pop_front()
pop_front_keep(q) == [item |-> Head(q), rest |-> q]
pop_back(q) == [item |-> q[Len(q)], rest |-> SubSeq(q, 1, Len(q) - 1)]
pop_front(q) == [item |-> Head(q), rest |-> Tail(q)]

\* fn read_anomalies(&mut self) over the lines `rest` the reader still holds:
\* the while loop, then what follows it
RECURSIVE read_anomalies(_, _)
read_more(r, rest) ==
    IF r.ret = "continue"
    THEN read_anomalies(r.cp, rest)
    ELSE [cp |-> r.cp, rest |-> rest, ret |-> r.ret]
read_anomalies(cp, rest) ==
    IF rest = <<>>
    THEN read_more(read_eof(cp), rest)
    ELSE read_more(read_line(cp, Head(rest)), Tail(rest))

\* for item in processor: next() called until it returns None, an Err item
\* being skipped; out is the AnomalyContext items delivered so far
RECURSIVE collect(_, _, _)
collect_more(r, out) ==
    IF r.ret = "Err" \/ (r.ret = "Ok" /\ r.cp.anomalies # <<>>)
    THEN collect(r.cp, r.rest, out)
    ELSE out
collect(cp, rest, out) ==
    IF cp.anomalies # <<>>
    THEN collect([cp EXCEPT !.anomalies = pop_front(@).rest], rest,
                 Append(out, pop_front(cp.anomalies).item))
    ELSE collect_more(read_anomalies(cp, rest), out)

(***************************************************************************)
(* IndexTrainer (process.rs:21-71): the trainer feeds the unique tokenized *)
(* lines of its readers to an IndexBuilder.  builder is the sequence of    *)
(* tokens IndexBuilder::add was called with.                               *)
(***************************************************************************)

\* IndexTrainer::new
IndexTrainer_new ==
    [builder |-> <<>>,
     skip_lines |-> {},
     line_count |-> 0,
     byte_count |-> 0]

\* add, lines 56-57: the counters
trainer_count(t, line) ==
    [t EXCEPT !.line_count = @ + 1, !.byte_count = @ + bytes_len(line)]

\* add, lines 60-62: if self.skip_lines.insert(&tokens) { self.builder.add }
trainer_insert(t, tokens) ==
    IF tokens \notin t.skip_lines
    THEN [t EXCEPT !.skip_lines = @ \cup {tokens}, !.builder = Append(@, tokens)]
    ELSE t

\* add, lines 52-63: one iteration of the for loop, for the line the reader
\* yields; ret is "continue" or "Err" (add returns the decode error)
trainer_line(t, line) ==
    IF ~from_utf8_ok(line)
    THEN [trainer |-> t, ret |-> "Err"]
    ELSE [trainer |-> trainer_insert(trainer_count(t, line), tokenize(line)),
          ret |-> "continue"]

\* add is entered with a new reader: skip_lines is the trainer's own and is
\* kept from one reader to the next
trainer_add_fresh(t) == [t EXCEPT !.skip_lines = {}]
trainer_add(t) == t

(***************************************************************************)
(* Workers (web-service/src/worker.rs).  running is the map of the report  *)
(* ids being processed, jobs the closures handed to the thread pool, db    *)
(* the updates applied to the report database.                             *)
(***************************************************************************)

\* worker.rs:27
MAX_LOGJUICER_PROCESS == 2

\* Workers::new; last_submit is the line submit printed last
Workers_new ==
    [running |-> {}, jobs |-> <<>>, db |-> <<>>, last_submit |-> "none"]

\* running.contains_key(&report_id); running is the set of the entries of
\* the map, the monitor of a job being named by the number of the job
contains_key(running, report_id) == \E e \in running : e.report_id = report_id

\* running.insert(report_id, monitor.clone())
insert(running, report_id, monitor) ==
    {e \in running : e.report_id # report_id}
        \cup {[report_id |-> report_id, monitor |-> monitor]}

\* running.write().unwrap().remove(&report_id)
remove(running, report_id) == {e \in running : e.report_id # report_id}

\* Workers::subscribe: running.get(&report_id).cloned()
subscribe(running, report_id) ==
    IF contains_key(running, report_id)
    THEN Some((CHOOSE e \in running : e.report_id = report_id).monitor)
    ELSE None

\* the closure submit hands to the pool, with the monitor it owns: pc is its
\* position, outcome what process_report_safe returned, count and status
\* what it computed for the database
new_job(report_id) ==
    [report_id |-> report_id,
     pc |-> "inserted",
     events |-> <<>>,
     outcome |-> "none",
     status |-> "none"]

\* ProcessMonitor::emit: self.events.push(msg)
emit(job, msg) == [job EXCEPT !.events = Append(@, msg)]

\* submit, lines 68-83: the last event the closure emits, for what
\* process_report_safe returned ("Ok", "Err", or "crashed" for a caught
\* panic) and for the result of report.save
terminal_event(outcome, saved) ==
    CASE outcome = "Ok" /\ saved -> "Done"
      [] outcome = "Ok" /\ ~saved -> "Error: saving failed"
      [] outcome = "Err" -> "Error: failed"
      [] OTHER -> "Error: crashed"

\* submit, lines 68-83: the ReportStatus recorded into the db
report_status_unsaved(outcome, saved) ==
    IF outcome = "Ok" THEN "Completed" ELSE "Error"
report_status(outcome, saved) ==
    IF outcome = "Ok" /\ saved THEN "Completed" ELSE "Error"

\* the jobs that occupy a thread of the pool
executing(jobs) ==
    {j \in 1..Len(jobs) :
        jobs[j].pc \in {"processing", "processed", "emitted", "removed"}}

(***************************************************************************)
(* The iterator as a state machine.  pc is the caller's position: "idle"   *)
(* between two calls of next(), "reading" inside the while loop of         *)
(* read_anomalies, "done" once next() returned None, "panic" after the     *)
(* panic of do_search_anomalies.  stream is the lines the reader has       *)
(* yielded so far and eof tells that it is exhausted; emitted is the       *)
(* AnomalyContext items next() returned, errors the number of Err items.   *)
(* known0 is the KnownLines the processor was built with.  inserted is     *)
(* used by DedupSpec alone: the positions of stream that hold inserted     *)
(* duplicate lines.  call and result are used by UnitSpec alone: the       *)
(* arguments and the result of one call of collect_before or reset.        *)
(* trainer and training are used by TrainSpec alone: the IndexTrainer, and *)
(* its caller's position (pc "adding" inside add), the number of readers   *)
(* handed to add and, for each line of stream, the reader it came from.    *)
(* workers is used by WorkerSpec alone.                                    *)
(***************************************************************************)
VARIABLES cp, pc, stream, eof, emitted, errors, known0, inserted, call, result,
          trainer, training, workers

vars ==
    <<cp, pc, stream, eof, emitted, errors, known0, inserted, call, result,
      trainer, training, workers>>

\* the KnownLines the caller hands to ChunkProcessor::new: fresh, or already
\* holding a line
InitialKnownLines == {{}, {1}}

Init ==
    /\ known0 \in InitialKnownLines
    /\ \E is_job_output \in BOOLEAN : cp = new(is_job_output, known0)
    /\ pc = "idle"
    /\ stream = <<>>
    /\ eof = FALSE
    /\ emitted = <<>>
    /\ errors = 0
    /\ inserted = {}
    /\ call = [op |-> "none"]
    /\ result = <<>>
    /\ trainer = IndexTrainer_new
    /\ training = [pc |-> "idle", reader |-> 0, sources |-> <<>>]
    /\ workers = Workers_new

\* next(), lines 110-115: what next() does with the result of read_anomalies
Return(r) ==
    CASE r.ret = "continue" ->
            /\ cp' = r.cp
            /\ pc' = "reading"
            /\ UNCHANGED <<emitted, errors>>
      [] r.ret = "Err" ->
            /\ cp' = r.cp
            /\ pc' = "idle"
            /\ errors' = errors + 1
            /\ UNCHANGED emitted
      [] r.ret = "Ok" /\ r.cp.anomalies = <<>> ->
            /\ cp' = r.cp
            /\ pc' = "done"
            /\ UNCHANGED <<emitted, errors>>
      [] r.ret = "Ok" /\ r.cp.anomalies # <<>> ->
            /\ cp' = [r.cp EXCEPT !.anomalies = pop_front(@).rest]
            /\ emitted' = Append(emitted, pop_front(r.cp.anomalies).item)
            /\ pc' = "idle"
            /\ UNCHANGED errors
      [] OTHER ->
            /\ cp' = r.cp
            /\ pc' = "panic"
            /\ UNCHANGED <<emitted, errors>>

\* next(): an anomaly is queued and is delivered
NextPop ==
    /\ pc = "idle"
    /\ cp.anomalies # <<>>
    /\ cp' = [cp EXCEPT !.anomalies = pop_front(@).rest]
    /\ emitted' = Append(emitted, pop_front(cp.anomalies).item)
    /\ UNCHANGED <<pc, stream, eof, errors, known0, inserted, call, result,
                 trainer, training, workers>>

\* next(): the queue is empty, read_anomalies is entered
NextRead ==
    /\ pc = "idle"
    /\ cp.anomalies = <<>>
    /\ pc' = "reading"
    /\ UNCHANGED <<cp, stream, eof, emitted, errors, known0, inserted, call, result,
                 trainer, training, workers>>

\* read_anomalies: the reader yields a decodable line that is not the marker
ReadLine(line) ==
    /\ pc = "reading"
    /\ ~eof
    /\ Len(stream) < MaxLen
    /\ from_utf8_ok(line)
    /\ ~(cp.is_job_output /\ contains_marker(line))
    /\ stream' = Append(stream, line)
    /\ Return(read_line(cp, line))
    /\ UNCHANGED <<eof, known0, inserted, call, result,
                 trainer, training, workers>>

\* read_anomalies: the reader yields a line that is not valid UTF-8
ReadBad(line) ==
    /\ pc = "reading"
    /\ ~eof
    /\ Len(stream) < MaxLen
    /\ ~from_utf8_ok(line)
    /\ stream' = Append(stream, line)
    /\ Return(read_line(cp, line))
    /\ UNCHANGED <<eof, known0, inserted, call, result,
                 trainer, training, workers>>

\* read_anomalies: is_job_output and the reader yields the marker line
ReadMarker(line) ==
    /\ pc = "reading"
    /\ ~eof
    /\ Len(stream) < MaxLen
    /\ from_utf8_ok(line)
    /\ cp.is_job_output /\ contains_marker(line)
    /\ stream' = Append(stream, line)
    /\ Return(read_line(cp, line))
    /\ UNCHANGED <<eof, known0, inserted, call, result,
                 trainer, training, workers>>

\* read_anomalies: the reader is exhausted
ReadEof ==
    /\ pc = "reading"
    /\ eof' = TRUE
    /\ Return(read_eof(cp))
    /\ UNCHANGED <<stream, known0, inserted, call, result,
                 trainer, training, workers>>

\* The lines the reader may yield.  Without is_job_output a marker line is
\* read like any other line, so that the lines of kind "ok" cover it.
TargetLines ==
    IF cp.is_job_output THEN Lines ELSE {line \in Lines : line.kind # "marker"}

Next ==
    \/ NextPop
    \/ NextRead
    \/ \E line \in TargetLines : ReadLine(line)
    \/ \E line \in TargetLines : ReadBad(line)
    \/ \E line \in TargetLines : ReadMarker(line)
    \/ ReadEof

Spec == Init /\ [][Next]_vars

(***************************************************************************)
(* DedupSpec builds a target stream line by line, some of the lines being  *)
(* inserted exact duplicates (their tokens occurred already); the          *)
(* processor is left as constructed and is run over whole streams by       *)
(* collect.                                                                *)
(***************************************************************************)

\* the tokens that occurred in the stream or are in KnownLines
SeenTokens ==
    known0 \cup {stream[i].tok : i \in {j \in 1..Len(stream) : stream[j].kind = "ok"}}

\* a line of the original target
AppendLine(line) ==
    /\ Len(stream) < MaxLen
    /\ stream' = Append(stream, line)
    /\ UNCHANGED <<cp, pc, eof, emitted, errors, known0, inserted, call, result,
                 trainer, training, workers>>

\* an inserted exact duplicate
InsertDuplicate(line) ==
    /\ Len(stream) < MaxLen
    /\ line.kind = "ok"
    /\ line.tok \in SeenTokens
    /\ stream' = Append(stream, line)
    /\ inserted' = inserted \cup {Len(stream) + 1}
    /\ UNCHANGED <<cp, pc, eof, emitted, errors, known0, call, result,
                 trainer, training, workers>>

DedupNext ==
    \/ \E line \in TargetLines : AppendLine(line)
    \/ \E line \in TargetLines : InsertDuplicate(line)

DedupSpec == Init /\ [][DedupNext]_vars

(***************************************************************************)
(* UnitSpec calls collect_before and reset directly, as test_leftovers     *)
(* does, on buffers and left-overs of every length within the bounds.  The *)
(* left-overs are the lines 1 .. m and the buffer holds the lines that     *)
(* follow them.                                                            *)
(***************************************************************************)

\* longest buffer handed to collect_before and reset
MaxBuffer == 5
\* longest left_overs handed to collect_before and reset
MaxLeftOvers == 4

\* a buffer of n entries, the first one being line `first`
BufferOf(first, n) ==
    IF n = 0 THEN <<>>
    ELSE [i \in 1..n |-> [ln |-> first + i - 1, coord |-> first + i - 1]]

\* left-overs of m lines
LeftOversOf(m) == IF m = 0 THEN <<>> ELSE [i \in 1..m |-> i]

\* an AnomalyContext for line ln
AnomalyAt(ln) ==
    [before |-> <<>>,
     after |-> <<>>,
     anomaly |-> [distance |-> 10, pos |-> ln, line |-> ln]]

\* a processor in the middle of a chunk: m left-overs, n buffered lines of
\* which the last is a target and, if open, an anomaly open and one queued
ProcessorWith(m, n, open) ==
    [new(FALSE, {1, 2}) EXCEPT
        !.reader = m + n,
        !.buffer = BufferOf(m + 1, n),
        !.left_overs = LeftOversOf(m),
        !.targets = IF n = 0 THEN <<>> ELSE <<3>>,
        !.targets_coord = IF n = 0 THEN <<>> ELSE <<m + n>>,
        !.current_anomaly = IF open THEN Some(AnomalyAt(m + 1)) ELSE None,
        !.anomalies = IF open THEN <<AnomalyAt(m)>> ELSE <<>>,
        !.coord = m + n,
        !.line_count = m + n,
        !.byte_count = 2 * (m + n)]

\* collect_before(buffer_pos, last_context_pos, &buffer, &left_overs)
CallCollectBefore(m, n, buffer_pos, last_context_pos) ==
    /\ last_context_pos <= buffer_pos
    /\ buffer_pos <= n
    /\ call' = [op |-> "collect_before",
                buffer_pos |-> buffer_pos,
                last_context_pos |-> last_context_pos,
                buffer |-> BufferOf(m + 1, n),
                left_overs |-> LeftOversOf(m)]
    /\ result' = collect_before(buffer_pos, last_context_pos,
                              BufferOf(m + 1, n), LeftOversOf(m))
    /\ UNCHANGED <<cp, pc, stream, eof, emitted, errors, known0, inserted,
                 trainer, training, workers>>

\* cp.reset(left_overs_pos)
CallReset(m, n, open, left_overs_pos) ==
    /\ left_overs_pos <= n
    /\ call' = [op |-> "reset",
                cp |-> ProcessorWith(m, n, open),
                left_overs_pos |-> left_overs_pos]
    /\ result' = reset(ProcessorWith(m, n, open), left_overs_pos)
    /\ UNCHANGED <<cp, pc, stream, eof, emitted, errors, known0, inserted,
                 trainer, training, workers>>

UnitNext ==
    \/ \E m \in 0..MaxLeftOvers, n \in 0..MaxBuffer, buffer_pos \in 0..MaxBuffer,
          last_context_pos \in 0..MaxBuffer :
            CallCollectBefore(m, n, buffer_pos, last_context_pos)
    \/ \E m \in 0..MaxLeftOvers, n \in 0..MaxBuffer, open \in BOOLEAN,
          left_overs_pos \in 0..MaxBuffer :
            CallReset(m, n, open, left_overs_pos)

UnitSpec == Init /\ [][UnitNext]_vars

(***************************************************************************)
(* TrainSpec hands readers to IndexTrainer::add one after the other; stream *)
(* is the lines the readers yielded, in order.  A reader that yields an    *)
(* undecodable line makes add return the error and is dropped.             *)
(***************************************************************************)

\* most lines the readers yield altogether
MaxTrainLines == 4
\* most readers handed to add
MaxReaders == 3

\* the lines a baseline reader may yield
TrainLines == {line \in Lines : line.kind # "marker"}

\* trainer.add(read) is called
TrainerAdd ==
    /\ training.pc = "idle"
    /\ training.reader < MaxReaders
    /\ trainer' = trainer_add(trainer)
    /\ training' = [training EXCEPT !.pc = "adding", !.reader = @ + 1]
    /\ UNCHANGED <<cp, pc, stream, eof, emitted, errors, known0, inserted,
                   call, result, workers>>

\* add: the reader yields a line
TrainerLine(line) ==
    /\ training.pc = "adding"
    /\ Len(stream) < MaxTrainLines
    /\ stream' = Append(stream, line)
    /\ trainer' = trainer_line(trainer, line).trainer
    /\ training' =
            [training EXCEPT
                !.pc = IF trainer_line(trainer, line).ret = "Err"
                       THEN "idle" ELSE "adding",
                !.sources = Append(@, training.reader)]
    /\ UNCHANGED <<cp, pc, eof, emitted, errors, known0, inserted,
                   call, result, workers>>

\* add: the reader is exhausted, add returns Ok(())
TrainerEnd ==
    /\ training.pc = "adding"
    /\ training' = [training EXCEPT !.pc = "idle"]
    /\ UNCHANGED <<cp, pc, stream, eof, emitted, errors, known0, inserted,
                   call, result, trainer, workers>>

TrainNext ==
    \/ TrainerAdd
    \/ \E line \in TrainLines : TrainerLine(line)
    \/ TrainerEnd

TrainSpec == Init /\ [][TrainNext]_vars

(***************************************************************************)
(* WorkerSpec: callers submit reports concurrently with the closures the   *)
(* thread pool runs.  Each statement of submit and of the closure that     *)
(* touches shared state (the running map, the monitor, the pool, the db)   *)
(* is one step; what submit does under the write lock is one step.         *)
(***************************************************************************)

\* the report ids submitted
ReportIDs == {1, 2}
\* most jobs accepted
MaxJobs == 2

\* submit, lines 48-54: the report is not in running; under the write lock
\* the monitor is created and inserted
SubmitStart(report_id) ==
    /\ ~contains_key(workers.running, report_id)
    /\ Len(workers.jobs) < MaxJobs
    /\ workers' =
            [workers EXCEPT
                !.running = insert(@, report_id, Len(workers.jobs) + 1),
                !.jobs = Append(@, new_job(report_id)),
                !.last_submit = "Submiting"]
    /\ UNCHANGED <<cp, pc, stream, eof, emitted, errors, known0, inserted,
                   call, result, trainer, training>>

\* submit, lines 48-50 and 92-94: the report is in running
SubmitAlready(report_id) ==
    /\ contains_key(workers.running, report_id)
    /\ workers' = [workers EXCEPT !.last_submit = "Already submitted"]
    /\ UNCHANGED <<cp, pc, stream, eof, emitted, errors, known0, inserted,
                   call, result, trainer, training>>

\* job j moves to position to, its other fields becoming those of job
JobStep(j, from, job, to) ==
    /\ j <= Len(workers.jobs)
    /\ workers.jobs[j].pc = from
    /\ workers' = [workers EXCEPT !.jobs[j] = [job EXCEPT !.pc = to]]
    /\ UNCHANGED <<cp, pc, stream, eof, emitted, errors, known0, inserted,
                   call, result, trainer, training>>

\* submit, line 65: self.pool.execute(closure)
PoolExecute(j) ==
    /\ j <= Len(workers.jobs)
    /\ JobStep(j, "inserted", workers.jobs[j], "queued")

\* a free thread of the pool takes the closure; process_report emits its
\* first event (lines 143-148)
PoolStart(j) ==
    /\ j <= Len(workers.jobs)
    /\ Cardinality(executing(workers.jobs)) < MAX_LOGJUICER_PROCESS
    /\ JobStep(j, "queued", emit(workers.jobs[j], "Running"), "processing")

\* submit, line 67: process_report_safe returns
ProcessReport(j, outcome) ==
    /\ j <= Len(workers.jobs)
    /\ JobStep(j, "processing", [workers.jobs[j] EXCEPT !.outcome = outcome],
               "processed")

\* submit, lines 68-84: the report is saved if there is one, the last event
\* is emitted and the status computed
EmitTerminal(j, saved) ==
    /\ j <= Len(workers.jobs)
    /\ saved => workers.jobs[j].outcome = "Ok"
    /\ JobStep(j, "processed",
               [emit(workers.jobs[j],
                     terminal_event(workers.jobs[j].outcome, saved))
                    EXCEPT !.status =
                        report_status(workers.jobs[j].outcome, saved)],
               "emitted")

\* submit, line 86: running.write().unwrap().remove(&report_id)
RemoveMonitor(j) ==
    /\ j <= Len(workers.jobs)
    /\ workers.jobs[j].pc = "emitted"
    /\ workers' =
            [workers EXCEPT
                !.running = remove(@, workers.jobs[j].report_id),
                !.jobs[j].pc = "removed"]
    /\ UNCHANGED <<cp, pc, stream, eof, emitted, errors, known0, inserted,
                   call, result, trainer, training>>

\* submit, lines 88-90: handle.spawn(db.update_report(...)); the closure ends
SpawnUpdate(j) ==
    /\ j <= Len(workers.jobs)
    /\ JobStep(j, "removed", workers.jobs[j], "spawned")

\* the spawned task runs: db.update_report(report_id, count, &status)
ApplyUpdate(j) ==
    /\ j <= Len(workers.jobs)
    /\ workers.jobs[j].pc = "spawned"
    /\ workers' =
            [workers EXCEPT
                !.db = Append(@, [report_id |-> workers.jobs[j].report_id,
                                  job |-> j,
                                  status |-> workers.jobs[j].status]),
                !.jobs[j].pc = "applied"]
    /\ UNCHANGED <<cp, pc, stream, eof, emitted, errors, known0, inserted,
                   call, result, trainer, training>>

\* what process_report_safe may return
Outcomes == {"Ok", "Err", "crashed"}

WorkerNext ==
    \/ \E report_id \in ReportIDs : SubmitStart(report_id)
    \/ \E report_id \in ReportIDs : SubmitAlready(report_id)
    \/ \E j \in 1..MaxJobs : PoolExecute(j)
    \/ \E j \in 1..MaxJobs : PoolStart(j)
    \/ \E j \in 1..MaxJobs, outcome \in Outcomes : ProcessReport(j, outcome)
    \/ \E j \in 1..MaxJobs, saved \in BOOLEAN : EmitTerminal(j, saved)
    \/ \E j \in 1..MaxJobs : RemoveMonitor(j)
    \/ \E j \in 1..MaxJobs : SpawnUpdate(j)
    \/ \E j \in 1..MaxJobs : ApplyUpdate(j)

\* a step of a closure, of the submit that hands it to the pool, or of the
\* task it spawned
JobSteps ==
    \E j \in 1..MaxJobs :
        \/ PoolExecute(j)
        \/ PoolStart(j)
        \/ \E outcome \in Outcomes : ProcessReport(j, outcome)
        \/ \E saved \in BOOLEAN : EmitTerminal(j, saved)
        \/ RemoveMonitor(j)
        \/ SpawnUpdate(j)
        \/ ApplyUpdate(j)

\* The pool runs the closures it was handed, a running closure goes on to its
\* end (process_report_safe returning, by a result or a caught panic), and
\* the runtime runs the tasks spawned on it: while a job has a step to take,
\* some job takes a step.
WorkerFairness == WF_vars(JobSteps)

\* the processor, the trainer and their callers take no part
WorkerInit == Init /\ known0 = {} /\ ~cp.is_job_output

WorkerSpec == WorkerInit /\ [][WorkerNext]_vars /\ WorkerFairness

(***************************************************************************)
(* What the claims speak of, read off the stream.                          *)
(***************************************************************************)

\* the coord read_anomalies gave line ln: bad lines get none
CoordOf(ln) == Cardinality({i \in 1..ln : stream[i].kind # "bad"})

\* line i was decoded and is not a marker line that stops the reading
Buffered(i) ==
    /\ stream[i].kind # "bad"
    /\ ~(cp.is_job_output /\ stream[i].kind = "marker")

\* line i is the first occurrence of its tokens with respect to KnownLines
FirstOccurrence(i) ==
    /\ Buffered(i)
    /\ stream[i].tok \notin known0
    /\ \A j \in 1..(i - 1) : Buffered(j) => stream[j].tok # stream[i].tok

\* line i is a unique line whose distance exceeds the threshold
Anomalous(i) == FirstOccurrence(i) /\ Distance(stream[i].tok) > THRESHOLD

\* the lines an emitted AnomalyContext holds, slot after slot
SlotsOf(a) == a.before \o <<a.anomaly.line>> \o a.after

RECURSIVE Flatten(_)
Flatten(items) ==
    IF items = <<>> THEN <<>> ELSE SlotsOf(Head(items)) \o Flatten(Tail(items))

\* no two positions of s hold the same value
Injective(s) == \A i, j \in 1..Len(s) : i # j => s[i] # s[j]

\* the marker lines of the stream
MarkerLines ==
    {m \in 1..Len(stream) : stream[m].kind = "marker"}

(***************************************************************************)
(* C1.  No reuse of lines: over all emitted AnomalyContext items, every    *)
(* line coord occurs in at most one slot (before, anomaly, after) of at    *)
(* most one item.  Stated for is_job_output = false, where no marker line   *)
(* stops the reading: the claim fails there already.                       *)
(***************************************************************************)
C1_NoReuse ==
    ~cp.is_job_output =>
        LET used == Flatten(emitted)
        IN  Injective([i \in 1..Len(used) |-> CoordOf(used[i])])

(***************************************************************************)
(* C2.  Self-exclusion: with is_job_output, until next() returns None no   *)
(* emitted anomaly comes from a line after the first marker line.          *)
(***************************************************************************)
C2_SelfExclusion ==
    cp.is_job_output =>
        \A i \in 1..Len(emitted) : \A m \in MarkerLines :
            emitted[i].anomaly.pos < m

\* the positions (line numbers) of the emitted anomalies, in emission order
EmittedPos == [k \in 1..Len(emitted) |-> emitted[k].anomaly.pos]

\* line i is the last unique line of the stream
LastUnique(i) ==
    /\ FirstOccurrence(i)
    /\ \A j \in (i + 1)..Len(stream) : ~FirstOccurrence(j)

(***************************************************************************)
(* C3.  Threshold soundness and completeness: when a stream has been read  *)
(* to the end without error and is_job_output is false, a line has been    *)
(* emitted as an anomaly if and only if it is the first occurrence of its  *)
(* tokens with respect to KnownLines and its distance is strictly greater  *)
(* than THRESHOLD; each such line is emitted exactly once, with that       *)
(* distance.                                                               *)
(***************************************************************************)
C3_Threshold ==
    (pc = "done" /\ ~cp.is_job_output /\ errors = 0) =>
        /\ \A i \in 1..Len(stream) :
                Anomalous(i) <=> \E k \in 1..Len(emitted) : EmittedPos[k] = i
        /\ Injective(EmittedPos)
        /\ \A k \in 1..Len(emitted) :
                /\ emitted[k].anomaly.line = emitted[k].anomaly.pos
                /\ emitted[k].anomaly.distance =
                        Distance(stream[emitted[k].anomaly.pos].tok)

\* a finished run that emitted an anomaly and left out a unique line whose
\* distance equals THRESHOLD
C3_Witness ==
    /\ pc = "done" /\ ~cp.is_job_output /\ errors = 0
    /\ emitted # <<>>
    /\ \E i \in 1..Len(stream) :
            /\ FirstOccurrence(i)
            /\ Distance(stream[i].tok) = THRESHOLD
            /\ \A k \in 1..Len(emitted) : EmittedPos[k] # i

(***************************************************************************)
(* C4.  Emission order: two anomalies delivered consecutively by next()    *)
(* have strictly increasing pos.                                           *)
(***************************************************************************)
C4_EmissionOrder ==
    \A k \in 1..(Len(emitted) - 1) : EmittedPos[k] < EmittedPos[k + 1]

\* two anomalies completed in different search phases were delivered: the
\* first CHUNK_SIZE lines are all unique, so the first search phase runs
\* right after line CHUNK_SIZE
C4_Witness ==
    /\ Len(emitted) >= 2
    /\ \A i \in 1..CHUNK_SIZE : i <= Len(stream) /\ FirstOccurrence(i)
    /\ EmittedPos[1] <= CHUNK_SIZE
    /\ EmittedPos[2] > CHUNK_SIZE

(***************************************************************************)
(* C5.  Context bounds: every emitted AnomalyContext has at most           *)
(* CTX_DISTANCE lines in before and at most CTX_DISTANCE lines in after.   *)
(***************************************************************************)
C5_ContextBounds ==
    \A k \in 1..Len(emitted) :
        /\ Len(emitted[k].before) <= CTX_DISTANCE
        /\ Len(emitted[k].after) <= CTX_DISTANCE

\* an anomaly of the second chunk was emitted with a full before that starts
\* in the first chunk (so topped up from left_overs) and with some after
C5_Witness ==
    /\ \A i \in 1..CHUNK_SIZE : i <= Len(stream) /\ FirstOccurrence(i)
    /\ \E k \in 1..Len(emitted) :
            /\ Len(emitted[k].before) = CTX_DISTANCE
            /\ emitted[k].before[1] <= CHUNK_SIZE
            /\ emitted[k].anomaly.pos > CHUNK_SIZE + 1
            /\ emitted[k].after # <<>>

(***************************************************************************)
(* C6.  End-of-stream flush: once the stream is exhausted nothing stays    *)
(* pending (no target, no open anomaly), and when next() has returned      *)
(* None the queue is empty and, if the last unique line is an anomaly, it  *)
(* has been emitted exactly once.                                          *)
(***************************************************************************)
C6_EndOfStreamFlush ==
    /\ (eof /\ pc \in {"idle", "done"}) =>
            /\ cp.targets = <<>>
            /\ ~is_some(cp.current_anomaly)
    /\ (eof /\ pc = "done") =>
            /\ cp.anomalies = <<>>
            /\ \A i \in 1..Len(stream) :
                    (LastUnique(i) /\ Distance(stream[i].tok) > THRESHOLD) =>
                        Cardinality({k \in 1..Len(emitted) : EmittedPos[k] = i}) = 1

\* the stream ended on an anomalous line, which was emitted with an empty after
C6_Witness ==
    /\ eof /\ pc = "done"
    /\ stream # <<>>
    /\ LastUnique(Len(stream))
    /\ Distance(stream[Len(stream)].tok) > THRESHOLD
    /\ emitted # <<>>
    /\ emitted[Len(emitted)].anomaly.pos = Len(stream)
    /\ emitted[Len(emitted)].after = <<>>

(***************************************************************************)
(* C7.  Buffer memory bound, as claimed: in every state between two search *)
(* phases the buffer holds at most CHUNK_SIZE * 10 raw lines.              *)
(***************************************************************************)
C7_BufferBound == Len(cp.buffer) <= CHUNK_SIZE * DUP_FACTOR

(***************************************************************************)
(* C7, amended.  Between two search phases the buffer holds at most        *)
(* CHUNK_SIZE * 10 raw lines plus the unique lines accumulated in targets, *)
(* which are fewer than CHUNK_SIZE: at most CHUNK_SIZE * 10 +              *)
(* CHUNK_SIZE - 1 lines.                                                   *)
(***************************************************************************)
C7_BufferBoundAmended ==
    /\ Len(cp.targets) < CHUNK_SIZE
    /\ Len(cp.buffer) <= CHUNK_SIZE * DUP_FACTOR + Len(cp.targets)

\* the amended bound is met: duplicates filled the buffer and unique lines
\* followed
C7_Witness ==
    /\ Len(cp.buffer) = CHUNK_SIZE * DUP_FACTOR + CHUNK_SIZE - 1
    /\ Len(cp.targets) = CHUNK_SIZE - 1

\* the positions of the original lines in stream, in order
RECURSIVE OriginalPositions(_)
OriginalPositions(n) ==
    IF n = 0 THEN <<>>
    ELSE IF n \in inserted THEN OriginalPositions(n - 1)
    ELSE Append(OriginalPositions(n - 1), n)

\* the stream without the inserted duplicates
OriginalStream ==
    LET at == OriginalPositions(Len(stream))
    IN  IF at = <<>> THEN <<>> ELSE [i \in 1..Len(at) |-> stream[at[i]]]

\* the anomalies a run over lines delivers: for each the raw line and the
\* line of the original stream it is (at maps line numbers to it)
AnomalyLines(lines, at) ==
    LET out == collect(new(cp.is_job_output, known0), lines, <<>>)
    IN  IF out = <<>> THEN <<>>
        ELSE [k \in 1..Len(out) |->
                [line |-> lines[out[k].anomaly.line],
                 source |-> at[out[k].anomaly.pos]]]

(***************************************************************************)
(* C8.  Dedup irrelevance: inserting exact-duplicate lines between the     *)
(* lines of a target stream changes neither the sequence of emitted        *)
(* anomaly.line values nor the source line each emitted anomaly maps to.   *)
(***************************************************************************)
C8_DedupIrrelevance ==
    LET original == OriginalStream
    IN  AnomalyLines(stream, [n \in 1..Len(stream) |-> n])
            = AnomalyLines(original, OriginalPositions(Len(stream)))

\* the line that got the coord after that of line i (Len(stream) + 1 if the
\* stream holds none): bad lines get no coord
RECURSIVE NextCoordLine(_)
NextCoordLine(i) ==
    IF i + 1 > Len(stream) THEN i + 1
    ELSE IF stream[i + 1].kind # "bad" THEN i + 1
    ELSE NextCoordLine(i + 1)

(***************************************************************************)
(* C9.  Adjacent anomalies: when the unique lines at consecutive coords k  *)
(* and k+1 both have a distance above THRESHOLD, the anomaly at k is       *)
(* emitted with an empty after and the before of the anomaly at k+1 does   *)
(* not contain line k.                                                     *)
(***************************************************************************)
C9_AdjacentAnomalies ==
    \A k \in 1..Len(emitted) :
        LET i == EmittedPos[k]
            j == NextCoordLine(i)
        IN  (j <= Len(stream) /\ Anomalous(j)) =>
                /\ emitted[k].after = <<>>
                /\ \A l \in 1..Len(emitted) :
                        EmittedPos[l] = j =>
                            \A b \in 1..Len(emitted[l].before) :
                                emitted[l].before[b] # i

\* two adjacent anomalies split by a chunk boundary were emitted: the first
\* CHUNK_SIZE lines are all unique, so the first search phase runs right
\* after line CHUNK_SIZE
C9_Witness ==
    /\ \A i \in 1..CHUNK_SIZE : i <= Len(stream) /\ FirstOccurrence(i)
    /\ Len(stream) >= CHUNK_SIZE + 2
    /\ Anomalous(CHUNK_SIZE) /\ Anomalous(CHUNK_SIZE + 1)
    /\ stream[CHUNK_SIZE + 1].kind = "ok"
    /\ \E k \in 1..Len(emitted) : EmittedPos[k] = CHUNK_SIZE + 1
    /\ \E k \in 1..Len(emitted) : EmittedPos[k] = CHUNK_SIZE

(***************************************************************************)
(* C10.  Before-context shape: in every emitted AnomalyContext, before     *)
(* lists lines in increasing coord order, all of them before the anomaly,  *)
(* and when before is non-empty its last element is the line immediately   *)
(* preceding the anomaly (the line of the preceding coord).                *)
(***************************************************************************)
C10_BeforeShape ==
    \A k \in 1..Len(emitted) :
        LET before == emitted[k].before
            pos == emitted[k].anomaly.pos
        IN  /\ \A b \in 1..(Len(before) - 1) :
                    CoordOf(before[b]) < CoordOf(before[b + 1])
            /\ \A b \in 1..Len(before) : CoordOf(before[b]) < CoordOf(pos)
            /\ before # <<>> => CoordOf(before[Len(before)]) = CoordOf(pos) - 1

\* the items next() delivered: AnomalyContext items and Err items
Delivered == Len(emitted) + errors

\* A bound on the steps the processor can still take: three for each line the
\* reader may still yield and for its end, one for each line read that has
\* not been turned into a delivered item, and the caller's position.
C11_Rank ==
    3 * (MaxLen - Len(stream)) + (IF eof THEN 0 ELSE 3)
        + (Len(stream) - Delivered)
        + (CASE pc = "idle" -> 2 [] pc = "reading" -> 1 [] OTHER -> 0)

(***************************************************************************)
(* C11.  Termination: over a finite target stream next() delivers finitely *)
(* many items and then returns None.  Every step of the processor (a line  *)
(* read, an item delivered, a call entered or returned) strictly decreases *)
(* C11_Rank, which is never negative; no more items are delivered than     *)
(* lines were read; a call that finds the reader exhausted returns None;   *)
(* and on the empty stream the first call returns None with no error and   *)
(* no anomaly.                                                             *)
(***************************************************************************)
C11_Termination ==
    /\ [][C11_Rank' < C11_Rank]_vars
    /\ [](C11_Rank >= 0 /\ Delivered <= Len(stream))
    /\ [][(eof /\ pc = "reading") => pc' = "done"]_vars
    /\ []((eof /\ stream = <<>>) => (pc = "done" /\ emitted = <<>> /\ errors = 0))

\* next() returned None on a stream of MaxLen lines that are all the same
\* line but one: the heavy duplication search ran and exactly one anomaly,
\* with a non-empty before, was delivered
C11_Witness ==
    /\ pc = "done" /\ eof
    /\ Len(stream) = MaxLen
    /\ Len(stream) > CHUNK_SIZE * DUP_FACTOR + 1
    /\ Cardinality({i \in 1..Len(stream) : stream[i] = stream[1]}) = MaxLen - 1
    /\ Len(emitted) = 1
    /\ emitted[1].before # <<>>

\* the lines of the stream that are not valid UTF-8
BadLines == {i \in 1..Len(stream) : stream[i].kind = "bad"}

\* this step reads a line that is not valid UTF-8
ReadsBadLine ==
    /\ Len(stream') = Len(stream) + 1
    /\ stream'[Len(stream')].kind = "bad"

(***************************************************************************)
(* C12.  Error surfacing without loss: the step that reads a line that is  *)
(* not valid UTF-8 returns one Err item from next(), delivers no           *)
(* AnomalyContext and changes none of line_count, byte_count, coord,       *)
(* buffer, targets, targets_coord, current_anomaly and anomalies; one Err  *)
(* item is delivered per such line; and the reading goes on behind it:     *)
(* when next() has returned None (is_job_output false), every unique line  *)
(* whose distance exceeds THRESHOLD has been emitted.                      *)
(***************************************************************************)
C12_ErrorSurfacing ==
    /\ [][ReadsBadLine =>
            /\ errors' = errors + 1
            /\ emitted' = emitted
            /\ pc' = "idle"
            /\ cp'.line_count = cp.line_count
            /\ cp'.byte_count = cp.byte_count
            /\ cp'.coord = cp.coord
            /\ cp'.buffer = cp.buffer
            /\ cp'.targets = cp.targets
            /\ cp'.targets_coord = cp.targets_coord
            /\ cp'.current_anomaly = cp.current_anomaly
            /\ cp'.anomalies = cp.anomalies]_vars
    /\ [](errors = Cardinality(BadLines))
    /\ []((pc = "done" /\ ~cp.is_job_output) =>
            \A i \in 1..Len(stream) :
                Anomalous(i) => \E k \in 1..Len(emitted) : EmittedPos[k] = i)

\* a run with a line that is not valid UTF-8 finished: an anomaly opened
\* before that line got after context from behind it, and an anomaly behind
\* it was emitted too
C12_Witness ==
    /\ pc = "done" /\ ~cp.is_job_output
    /\ \E b \in BadLines :
            /\ \E k \in 1..Len(emitted) :
                    /\ EmittedPos[k] < b
                    /\ \E a \in 1..Len(emitted[k].after) : emitted[k].after[a] > b
            /\ \E k \in 1..Len(emitted) : EmittedPos[k] > b

\* the first n lines of the stream are copies of one line that matches the
\* baseline (distance <= THRESHOLD), n lying strictly between CHUNK_SIZE and
\* CHUNK_SIZE * 10
RepeatedBaseline(n) ==
    /\ CHUNK_SIZE < n /\ n < CHUNK_SIZE * DUP_FACTOR
    /\ n <= Len(stream)
    /\ stream[1].kind = "ok"
    /\ Distance(stream[1].tok) <= THRESHOLD
    /\ \A i \in 1..n : stream[i] = stream[1]

\* the copies have been read and the reader is about to yield the next line
CopiesRead ==
    /\ pc = "reading" /\ ~eof
    /\ RepeatedBaseline(Len(stream))

\* the stream is the copies followed by one anomalous line, read to the end
CopiesThenAnomaly ==
    /\ pc = "done" /\ eof
    /\ Len(stream) > 1
    /\ RepeatedBaseline(Len(stream) - 1)
    /\ Anomalous(Len(stream))

(***************************************************************************)
(* C13, as claimed.  Chunk-boundary scenario: after more than CHUNK_SIZE   *)
(* and fewer than CHUNK_SIZE * 10 copies of one baseline-matching line, a  *)
(* search phase has run and reset the buffer, so that the anomalous line   *)
(* that follows is searched in a second chunk and gets its before from     *)
(* left_overs.                                                             *)
(***************************************************************************)
C13_ChunkBoundary ==
    CopiesRead =>
        /\ Len(cp.buffer) < Len(stream)
        /\ cp.left_overs # <<>>

(***************************************************************************)
(* C13, amended.  The copies are one unique line and its duplicates: they  *)
(* fill no chunk and, being fewer than CHUNK_SIZE * 10, trigger no search. *)
(* When the anomalous line is read all copies are still in buffer and      *)
(* left_overs is empty; the anomaly is found by the first search phase and *)
(* is the only item emitted, with the last three copies as before, taken   *)
(* from buffer, and an empty after.                                        *)
(***************************************************************************)
C13_ChunkBoundaryAmended ==
    /\ CopiesRead =>
            /\ raw_lines(cp.buffer) = [i \in 1..Len(stream) |-> i]
            /\ cp.left_overs = <<>>
            /\ emitted = <<>>
    /\ CopiesThenAnomaly =>
            /\ Len(emitted) = 1
            /\ emitted[1].anomaly.pos = Len(stream)
            /\ emitted[1].before =
                    [b \in 1..CTX_DISTANCE |-> Len(stream) - 1 - CTX_DISTANCE + b]
            /\ emitted[1].after = <<>>

\* the scenario was run to its end and the anomaly was emitted
C13_Witness ==
    /\ CopiesThenAnomaly
    /\ emitted # <<>>
    /\ Len(emitted[1].before) = CTX_DISTANCE

\* s is strictly increasing
StrictlyIncreasing(s) == \A i \in 1..(Len(s) - 1) : s[i] < s[i + 1]

\* the coords of the buffer entries, in order
BufferCoords ==
    IF cp.buffer = <<>> THEN <<>>
    ELSE [i \in 1..Len(cp.buffer) |-> cp.buffer[i].coord]

(***************************************************************************)
(* C14.  Accumulator alignment: in every state between two lines read --   *)
(* so after every call to next() -- targets and targets_coord have the     *)
(* same length, at most CHUNK_SIZE; the coords of targets_coord are        *)
(* strictly increasing and form a subsequence of the coords of buffer      *)
(* (themselves strictly increasing, so that a subsequence is a subset).    *)
(***************************************************************************)
C14_AccumulatorAlignment ==
    /\ Len(cp.targets) = Len(cp.targets_coord)
    /\ Len(cp.targets) <= CHUNK_SIZE
    /\ StrictlyIncreasing(cp.targets_coord)
    /\ StrictlyIncreasing(BufferCoords)
    /\ \A i \in 1..Len(cp.targets_coord) :
            \E j \in 1..Len(cp.buffer) : cp.buffer[j].coord = cp.targets_coord[i]

\* next() returned (an Err item) in a second chunk with a unique line pending
\* among duplicates: a search phase has reset the accumulators, and buffer
\* holds more lines than targets
C14_Witness ==
    /\ pc = "idle"
    /\ errors > 0
    /\ cp.left_overs # <<>>
    /\ cp.targets # <<>>
    /\ Len(cp.buffer) > Len(cp.targets)
    /\ cp.targets_coord[1] # cp.buffer[1].coord

(***************************************************************************)
(* C15.  Open-anomaly bound: in every state between two lines read -- so   *)
(* at the end of every search phase and of every call to next() -- an open *)
(* current_anomaly has fewer than CTX_DISTANCE lines of after; an anomaly  *)
(* whose after reached CTX_DISTANCE is in the queue (or delivered) and is  *)
(* not the open one.                                                       *)
(***************************************************************************)
C15_OpenAnomalyBound ==
    /\ is_some(cp.current_anomaly) =>
            Len(unwrap(cp.current_anomaly).after) < CTX_DISTANCE
    /\ \A k \in 1..Len(cp.anomalies) :
            /\ Len(cp.anomalies[k].after) <= CTX_DISTANCE
            /\ is_some(cp.current_anomaly) =>
                    cp.anomalies[k].anomaly.pos # unwrap(cp.current_anomaly).anomaly.pos

\* a search phase ended (buffer reset) with an anomaly open, after an anomaly
\* of an earlier chunk was completed by the walk (after of CTX_DISTANCE lines)
\* and delivered
C15_Witness ==
    /\ is_some(cp.current_anomaly)
    /\ cp.buffer = <<>>
    /\ \E k \in 1..Len(emitted) :
            /\ Len(emitted[k].after) = CTX_DISTANCE
            /\ emitted[k].anomaly.pos <= CHUNK_SIZE
            /\ emitted[k].after[CTX_DISTANCE] > CHUNK_SIZE

(***************************************************************************)
(* C16.  The panic of do_search_anomalies is unreachable: no search phase  *)
(* reachable from ChunkProcessor::new through calls to next() takes the    *)
(* branch "is_anomaly but target_str not set", whatever the stream holds   *)
(* (undecodable lines and the self-exclusion marker included).             *)
(***************************************************************************)
C16_NoPanic == pc # "panic" /\ ~cp.panicked

\* with is_job_output, anomalies were found by search phases before and
\* behind a marker line and behind an undecodable line
C16_Witness ==
    /\ cp.is_job_output
    /\ \E m \in MarkerLines :
            /\ \E k \in 1..Len(emitted) : EmittedPos[k] < m
            /\ \E k \in 1..Len(emitted) : EmittedPos[k] > m
    /\ \E b \in 1..Len(stream) :
            /\ stream[b].kind = "bad"
            /\ \E k \in 1..Len(emitted) : EmittedPos[k] > b

\* the after context the claim gives to the anomaly at line i: the lines that
\* follow it in coord order, up to n of them, up to the next anomalous unique
\* line and up to the end of the stream
RECURSIVE AfterFrom(_, _)
AfterFrom(i, n) ==
    IF n = 0 \/ NextCoordLine(i) > Len(stream) \/ Anomalous(NextCoordLine(i))
    THEN <<>>
    ELSE <<NextCoordLine(i)>> \o AfterFrom(NextCoordLine(i), n - 1)

(***************************************************************************)
(* C17.  After-context content: when next() has returned None at the end   *)
(* of the stream (is_job_output false), the after of every emitted anomaly *)
(* at coord c is exactly the lines at coords c+1 .. c+n in stream order, n *)
(* being the minimum of CTX_DISTANCE, the number of lines between c and    *)
(* the next anomalous unique line, and the number of lines left before the *)
(* end of the stream.                                                      *)
(***************************************************************************)
C17_AfterContent ==
    (pc = "done" /\ eof /\ ~cp.is_job_output) =>
        \A k \in 1..Len(emitted) :
            emitted[k].after = AfterFrom(EmittedPos[k], CTX_DISTANCE)

\* the window of buffer that collect_before is said to return: it starts at
\* start and ends before buffer_pos
WindowStart(buffer_pos, last_context_pos) ==
    Max(last_context_pos, Max(0, buffer_pos - CTX_DISTANCE))

Window(buffer, buffer_pos, last_context_pos) ==
    raw_lines(SubSeq(buffer, WindowStart(buffer_pos, last_context_pos) + 1,
                     buffer_pos))

\* the last k elements of s
LastOf(s, k) == SubSeq(s, Len(s) - k + 1, Len(s))

(***************************************************************************)
(* C18.  collect_before reference result: for all buffer, left_overs and   *)
(* positions with last_context_pos <= buffer_pos <= |buffer|,              *)
(* collect_before returns buffer[start .. buffer_pos] with start =         *)
(* max(last_context_pos, max(0, buffer_pos - CTX_DISTANCE)), preceded,     *)
(* only when start = 0 and that window has fewer than CTX_DISTANCE lines,  *)
(* by the last min(CTX_DISTANCE - |window|, |left_overs|) lines of         *)
(* left_overs in their original order.                                     *)
(***************************************************************************)
C18_CollectBefore ==
    call.op = "collect_before" =>
        LET window == Window(call.buffer, call.buffer_pos, call.last_context_pos)
            start == WindowStart(call.buffer_pos, call.last_context_pos)
        IN  result =
                IF start = 0 /\ Len(window) < CTX_DISTANCE
                THEN LastOf(call.left_overs,
                            Min(CTX_DISTANCE - Len(window), Len(call.left_overs)))
                        \o window
                ELSE window

\* collect_before topped a short, non-empty window up with a part of the
\* left-overs
C18_Witness ==
    /\ call.op = "collect_before"
    /\ call.last_context_pos = 0
    /\ call.buffer_pos = 1
    /\ Len(call.left_overs) > CTX_DISTANCE
    /\ Len(result) = CTX_DISTANCE
    /\ result[CTX_DISTANCE] = call.buffer[1].ln
    /\ result[1] = call.left_overs[Len(call.left_overs) - 1]

(***************************************************************************)
(* C19.  reset result and frame: for a buffer of length n and any p <= n,  *)
(* reset(p) leaves buffer, targets and targets_coord empty and sets        *)
(* left_overs to the raw lines of the old buffer[max(p, max(0, n -         *)
(* CTX_DISTANCE)) ..] in order, so that left_overs has at most             *)
(* CTX_DISTANCE lines; it changes neither current_anomaly, nor the         *)
(* anomalies queue, nor coord, line_count, byte_count or KnownLines.       *)
(***************************************************************************)
C19_Reset ==
    call.op = "reset" =>
        LET n == Len(call.cp.buffer)
            from == Max(call.left_overs_pos, Max(0, n - CTX_DISTANCE))
        IN  /\ result.buffer = <<>>
            /\ result.targets = <<>>
            /\ result.targets_coord = <<>>
            /\ result.left_overs = raw_lines(SubSeq(call.cp.buffer, from + 1, n))
            /\ Len(result.left_overs) <= CTX_DISTANCE
            /\ result.current_anomaly = call.cp.current_anomaly
            /\ result.anomalies = call.cp.anomalies
            /\ result.coord = call.cp.coord
            /\ result.line_count = call.cp.line_count
            /\ result.byte_count = call.cp.byte_count
            /\ result.skip_lines = call.cp.skip_lines

\* reset was called in the middle of a chunk with an anomaly open and one
\* queued, left_overs_pos lying inside the last CTX_DISTANCE lines: fewer
\* than CTX_DISTANCE lines are kept and the old left-overs are replaced
C19_Witness ==
    /\ call.op = "reset"
    /\ Len(call.cp.buffer) > CTX_DISTANCE
    /\ call.left_overs_pos = Len(call.cp.buffer) - 2
    /\ call.cp.targets # <<>>
    /\ call.cp.left_overs # <<>>
    /\ is_some(call.cp.current_anomaly)
    /\ Len(result.left_overs) = 2
    /\ result.left_overs[2] = call.cp.buffer[Len(call.cp.buffer)].ln

\* every anomaly the processor has assembled so far: delivered, queued or open
AllAnomalies == emitted \o cp.anomalies \o cp.current_anomaly

\* line ln was used as after context of an anomaly or is an anomaly line
Consumed(ln) ==
    \E k \in 1..Len(AllAnomalies) :
        \/ AllAnomalies[k].anomaly.line = ln
        \/ \E a \in 1..Len(AllAnomalies[k].after) : AllAnomalies[k].after[a] = ln

(***************************************************************************)
(* C20.  Left-overs exclude consumed lines: after every search phase,      *)
(* left_overs contains no line that was appended to the after of an        *)
(* anomaly (in the main walk or in the tail sweep) and no anomaly line.    *)
(***************************************************************************)
C20_LeftOversUnconsumed ==
    \A i \in 1..Len(cp.left_overs) : ~Consumed(cp.left_overs[i])

\* the lines of the stream the trainer decoded
Decoded == {i \in 1..Len(stream) : stream[i].kind # "bad"}

\* the tokens of the decoded lines among the first n, each at its first
\* occurrence
RECURSIVE FirstTokens(_)
FirstTokens(n) ==
    IF n = 0 THEN <<>>
    ELSE IF n \in Decoded
            /\ \A j \in 1..(n - 1) : j \in Decoded => stream[j].tok # stream[n].tok
    THEN Append(FirstTokens(n - 1), stream[n].tok)
    ELSE FirstTokens(n - 1)

(***************************************************************************)
(* C21.  Trainer deduplication: over any sequence of IndexTrainer.add      *)
(* calls on one trainer, IndexBuilder.add has been called exactly once for *)
(* each distinct tokenized line, in the order of first occurrence across   *)
(* all readers; line_count counts every decoded line, duplicates included; *)
(* a line seen in an earlier reader is not fed again from a later reader.  *)
(***************************************************************************)
C21_TrainerDedup ==
    /\ trainer.builder = FirstTokens(Len(stream))
    /\ \A i \in Decoded :
            Cardinality({k \in 1..Len(trainer.builder) :
                            trainer.builder[k] = stream[i].tok}) = 1
    /\ trainer.line_count = Cardinality(Decoded)
    /\ trainer.skip_lines = {stream[i].tok : i \in Decoded}

\* a second reader repeated a line of the first one and brought a new line,
\* after a reader failed on an undecodable line
C21_Witness ==
    /\ \E i, j \in Decoded :
            /\ training.sources[i] < training.sources[j]
            /\ stream[i].tok = stream[j].tok
    /\ \E b \in 1..Len(stream) : stream[b].kind = "bad" /\ b < Len(stream)
    /\ Len(trainer.builder) >= 2
    /\ trainer.line_count > Len(trainer.builder)

\* job j is queued in the pool or is executing on one of its threads
QueuedOrExecuting(j) ==
    workers.jobs[j].pc \in {"queued", "processing", "processed", "emitted", "removed"}

\* this step is a submit that starts a job
StartsJob == Len(workers'.jobs) > Len(workers.jobs)

(***************************************************************************)
(* C22.  Worker mutual exclusion per report: under any interleaving of     *)
(* submit calls and job completions, at most one job for a given report_id *)
(* is queued or executing at any time; no step starts a job for a          *)
(* report_id that is in the running map, and the monitor of a report_id    *)
(* stays in place until its own job removes it.                            *)
(***************************************************************************)
C22_MutualExclusion ==
    /\ [](\A j1, j2 \in 1..Len(workers.jobs) :
            (/\ j1 # j2
             /\ workers.jobs[j1].report_id = workers.jobs[j2].report_id
             /\ QueuedOrExecuting(j1))
                => ~QueuedOrExecuting(j2))
    /\ [][StartsJob =>
            ~contains_key(workers.running,
                          workers'.jobs[Len(workers'.jobs)].report_id)]_vars
    /\ [][\A e \in workers.running :
            \/ e \in workers'.running
            \/ /\ ~contains_key(workers'.running, e.report_id)
               /\ workers.jobs[e.monitor].pc = "emitted"
               /\ workers'.jobs[e.monitor].pc = "removed"]_vars

\* the events of job j's monitor that are terminal
TerminalEvents(j) ==
    {k \in 1..Len(workers.jobs[j].events) : workers.jobs[j].events[k] # "Running"}

\* job j's monitor is in the running map
Monitored(j) == \E e \in workers.running : e.monitor = j

\* the updates of the db that job j scheduled and that were applied
UpdatesOf(j) == {k \in 1..Len(workers.db) : workers.db[k].job = j}

\* job j has emitted its last event
HasEmitted(j) == workers.jobs[j].pc \in {"emitted", "removed", "spawned", "applied"}

\* job j has removed its report_id from running and its update is not applied
InWindow(j) == workers.jobs[j].pc \in {"removed", "spawned"}

(***************************************************************************)
(* C23.  Worker completion protocol: every job accepted by submit          *)
(* eventually emits exactly one terminal event on its monitor ("Done" when *)
(* the report was produced and saved, otherwise a message starting with    *)
(* "Error:", a caught panic included), then removes its report_id from the *)
(* running map, and only then schedules exactly one db.update_report, with *)
(* status Completed if and only if the terminal event was "Done"; the      *)
(* update is eventually applied.  From the removal until the update is     *)
(* applied the job's entry is absent from running: the report_id is either *)
(* absent or held by a job submitted in that window.  Fairness: the pool   *)
(* runs the closures it is handed and process_report_safe returns.         *)
(***************************************************************************)
C23_CompletionProtocol ==
    /\ \A j \in 1..MaxJobs :
            (j <= Len(workers.jobs)) ~>
                (/\ j <= Len(workers.jobs)
                 /\ workers.jobs[j].pc = "applied"
                 /\ Cardinality(TerminalEvents(j)) = 1
                 /\ Cardinality(UpdatesOf(j)) = 1)
    /\ [](\A j \in 1..Len(workers.jobs) :
            /\ Cardinality(TerminalEvents(j)) = IF HasEmitted(j) THEN 1 ELSE 0
            /\ HasEmitted(j) =>
                    LET last == workers.jobs[j].events[Len(workers.jobs[j].events)]
                    IN  /\ TerminalEvents(j) = {Len(workers.jobs[j].events)}
                        /\ (last = "Done") <=>
                                (workers.jobs[j].outcome = "Ok"
                                    /\ workers.jobs[j].status = "Completed")
                        /\ (last = "Done") <=> (workers.jobs[j].status = "Completed")
                        /\ last \in {"Done", "Error: saving failed",
                                     "Error: failed", "Error: crashed"}
            /\ Monitored(j) <=>
                    workers.jobs[j].pc \in
                        {"inserted", "queued", "processing", "processed", "emitted"}
            /\ Cardinality(UpdatesOf(j)) =
                    IF workers.jobs[j].pc = "applied" THEN 1 ELSE 0
            /\ \A k \in UpdatesOf(j) :
                    /\ workers.db[k].report_id = workers.jobs[j].report_id
                    /\ workers.db[k].status = workers.jobs[j].status
            /\ InWindow(j) =>
                    \A e \in workers.running :
                        e.report_id = workers.jobs[j].report_id => e.monitor > j)

\* a job removed its report_id and, before its update of the db was applied,
\* a submit started a new job for the same report_id; the first job had
\* emitted "Done", the update being still to come
C23_Witness ==
    \E j1, j2 \in 1..Len(workers.jobs) :
        /\ j1 < j2
        /\ workers.jobs[j1].report_id = workers.jobs[j2].report_id
        /\ InWindow(j1)
        /\ Monitored(j2)
        /\ workers.jobs[j1].status = "Completed"

=============================================================================
